---------------------------- MODULE Spec2Model ----------------------------
(***************************************************************************)
(* simonkarman/hosting: the viewer-request edge function that rewrites the *)
(* request uri, and the HostingStack constructor with its withWwwDomains   *)
(* helper that composes the hostnames of a website.                        *)
(*                                                                         *)
(* JavaScript strings are TLA+ strings; Len, SubSeq and \o act on them     *)
(* character by character. JavaScript arrays are sequences; the array      *)
(* index i of the source is 0-based, so domains[i] is domains[i + 1] here. *)
(***************************************************************************)
EXTENDS Integers, Sequences, FiniteSets, TLC

VARIABLES
  \* viewer-request function (handler)
  uri,                    \* request.uri
  fromUri,                \* const fromUri
  hpc,                    \* position in handler
  uriWrites,              \* number of assignments to request.uri executed
  logs,                   \* lines written by console.log
  callbacks,              \* invocations of callback, in order
  \* HostingStack constructor, one website
  stack,                  \* which HostingStack source is running
  domainName,             \* website.domainName
  alternativeDomainNames, \* website.alternativeDomainNames (optional)
  domains,                \* local array of withWwwDomains
  i,                      \* loop index of withWwwDomains (0-based)
  wpc,                    \* position in constructor / withWwwDomains
  result,                 \* value returned by withWwwDomains
  certificate,            \* props of cm.Certificate
  distribution            \* props of cf.Distribution

handlerVars == <<uri, fromUri, hpc, uriWrites, logs, callbacks>>
stackVars == <<stack, domainName, alternativeDomainNames, domains, i, wpc,
               result, certificate, distribution>>
vars == <<uri, fromUri, hpc, uriWrites, logs, callbacks, stack, domainName,
          alternativeDomainNames, domains, i, wpc, result, certificate,
          distribution>>

---------------------------------------------------------------------------
(* Bounds *)

MaxUriLen == 6
MaxAlternatives == 2
MaxWwwDepth == 2

---------------------------------------------------------------------------
(* String and array primitives of the JavaScript runtime *)

endsWith(s, suffix) ==
  /\ Len(s) >= Len(suffix)
  /\ SubSeq(s, Len(s) - Len(suffix) + 1, Len(s)) = suffix

startsWith(s, prefix) ==
  /\ Len(s) >= Len(prefix)
  /\ SubSeq(s, 1, Len(prefix)) = prefix

\* String.prototype.includes: sub occurs somewhere in s
includes(s, sub) ==
  \E k \in 1..(Len(s) - Len(sub) + 1) : SubSeq(s, k, k + Len(sub) - 1) = sub

\* Array.prototype.includes
arrayIncludes(arr, x) == \E k \in 1..Len(arr) : arr[k] = x

\* Array.prototype.slice(1)
slice1(arr) == SubSeq(arr, 2, Len(arr))

---------------------------------------------------------------------------
(* Inputs *)

UriChars == {"/", ".", "a"}

RECURSIVE StringsUpTo(_)
StringsUpTo(n) ==
  IF n = 0 THEN {""}
  ELSE LET shorter == StringsUpTo(n - 1)
       IN  shorter \cup {s \o c : s \in shorter, c \in UriChars}

Uris == StringsUpTo(MaxUriLen)

RECURSIVE WwwUpTo(_, _)
WwwUpTo(base, n) ==
  IF n = 0 THEN base
  ELSE LET less == WwwUpTo(base, n - 1)
       IN  less \cup {"www." \o d : d \in less}

DomainNames == WwwUpTo({"example.org", "example.com"}, MaxWwwDepth)
                 \cup {"wwwexample.org"}

SeqsUpTo(S, n) == UNION {[1..m -> S] : m \in 0..n}

\* alternativeDomainNames?: string[]
OptionalNames ==
  {[defined |-> FALSE, names |-> <<>>]}
    \cup {[defined |-> TRUE, names |-> a] : a \in SeqsUpTo(DomainNames, MaxAlternatives)}

NoCertificate == [domainName |-> "", subjectAlternativeNames |-> <<>>]
NoDistribution == [domainNames |-> <<>>]

---------------------------------------------------------------------------
(* viewer-request function *)

\* Rewrite with the "." test made before the "/" test
RewriteSwappedBranches(u) ==
  IF ~includes(u, ".") THEN u \o "/index.html"
  ELSE IF endsWith(u, "/") THEN u \o "index.html"
  ELSE u

\* Rewrite appending "index" without the ".html" extension
RewriteIndexOnly(u) ==
  IF endsWith(u, "/") THEN u \o "index"
  ELSE IF ~includes(u, ".") THEN u \o "/index"
  ELSE u

\* the if / else if of the handler, as the value request.uri has after it
Rewrite(u) ==
  IF endsWith(u, "/") THEN u \o "index.html"
  ELSE IF ~includes(u, ".") THEN u \o "/index.html"
  ELSE u

\* the line console.log writes
LogLine(to, from) ==
  "Request uri changed to \"" \o to \o "\" (was \"" \o from \o "\")"

\* const request = event.Records[0].cf.request; const fromUri = request.uri
ReadRequest ==
  /\ hpc = "entry"
  /\ fromUri' = uri
  /\ hpc' = "rewrite"
  /\ UNCHANGED <<uri, uriWrites, logs, callbacks>>
  /\ UNCHANGED stackVars

\* if (request.uri.endsWith('/')) request.uri = ...
RewriteDirectory ==
  /\ hpc = "rewrite"
  /\ endsWith(uri, "/")
  /\ uri' = Rewrite(uri)
  /\ uriWrites' = uriWrites + 1
  /\ hpc' = "log"
  /\ UNCHANGED <<fromUri, logs, callbacks>>
  /\ UNCHANGED stackVars

\* else if (!request.uri.includes('.')) request.uri = ...
RewriteExtensionless ==
  /\ hpc = "rewrite"
  /\ ~endsWith(uri, "/")
  /\ ~includes(uri, ".")
  /\ uri' = Rewrite(uri)
  /\ uriWrites' = uriWrites + 1
  /\ hpc' = "log"
  /\ UNCHANGED <<fromUri, logs, callbacks>>
  /\ UNCHANGED stackVars

\* neither branch taken: request.uri is not assigned
KeepUri ==
  /\ hpc = "rewrite"
  /\ ~endsWith(uri, "/")
  /\ includes(uri, ".")
  /\ uri' = Rewrite(uri)
  /\ hpc' = "log"
  /\ UNCHANGED <<fromUri, uriWrites, logs, callbacks>>
  /\ UNCHANGED stackVars

\* if (request.uri !== fromUri) console.log(...)
LogChange ==
  /\ hpc = "log"
  /\ uri # fromUri
  /\ logs' = Append(logs, LogLine(uri, fromUri))
  /\ hpc' = "forward"
  /\ UNCHANGED <<uri, fromUri, uriWrites, callbacks>>
  /\ UNCHANGED stackVars

\* request.uri === fromUri: nothing is logged
SkipLog ==
  /\ hpc = "log"
  /\ uri = fromUri
  /\ hpc' = "forward"
  /\ UNCHANGED <<uri, fromUri, uriWrites, logs, callbacks>>
  /\ UNCHANGED stackVars

\* Forward that appends to request.uri after the callback was invoked
ForwardThenTouch ==
  /\ hpc = "forward"
  /\ callbacks' = Append(callbacks, [error |-> "null", uri |-> uri])
  /\ uri' = uri \o "/"
  /\ hpc' = "returned"
  /\ UNCHANGED <<fromUri, uriWrites, logs>>
  /\ UNCHANGED stackVars

\* callback(null, request)
Forward ==
  /\ hpc = "forward"
  /\ callbacks' = Append(callbacks, [error |-> "null", uri |-> uri])
  /\ hpc' = "returned"
  /\ UNCHANGED <<uri, fromUri, uriWrites, logs>>
  /\ UNCHANGED stackVars

HandlerInit ==
  /\ uri \in Uris
  /\ fromUri = ""
  /\ hpc = "entry"
  /\ uriWrites = 0
  /\ logs = <<>>
  /\ callbacks = <<>>
  /\ stack = "none"
  /\ domainName = ""
  /\ alternativeDomainNames = [defined |-> FALSE, names |-> <<>>]
  /\ domains = <<>>
  /\ i = 0
  /\ wpc = "idle"
  /\ result = <<>>
  /\ certificate = NoCertificate
  /\ distribution = NoDistribution

HandlerNext ==
  \/ ReadRequest
  \/ RewriteDirectory
  \/ RewriteExtensionless
  \/ KeepUri
  \/ LogChange
  \/ SkipLog
  \/ Forward

HandlerSpec == HandlerInit /\ [][HandlerNext]_vars

\* the handler is one synchronous function: once invoked it runs to its end
HandlerLive == HandlerInit /\ [][HandlerNext]_vars /\ WF_vars(HandlerNext)

---------------------------------------------------------------------------
(* HostingStack constructor: the body of websites.forEach for one website *)

\* alternativeDomainNames || []
orEmpty(optional) == IF optional.defined THEN optional.names ELSE <<>>

\* isWwwDomain testing the prefix 'www' without its dot
isWwwDomainWithoutDot(domain) == startsWith(domain, "www")

\* domain.startsWith('www.')
isWwwDomain(domain) == startsWith(domain, "www.")

\* wwwPresent looking among the alternatives only, not at the main domain
wwwGivenAsAlternative(arr, domain) == arrayIncludes(slice1(arr), "www." \o domain)

\* domains.includes(`www.${domain}`)
wwwPresent(arr, domain) == arrayIncludes(arr, "www." \o domain)

\* this.withWwwDomains(website.domainName, website.alternativeDomainNames)
EnterWithWwwDomains ==
  /\ wpc = "start"
  /\ stack = "part_000"
  /\ domains' = <<domainName>> \o orEmpty(alternativeDomainNames)
  /\ i' = Len(domains') - 1
  /\ wpc' = "loop"
  /\ UNCHANGED <<stack, domainName, alternativeDomainNames, result,
                 certificate, distribution>>
  /\ UNCHANGED handlerVars

\* loop body: if (domain.startsWith('www.')) continue
SkipWwwDomain ==
  /\ wpc = "loop"
  /\ i >= 0
  /\ isWwwDomain(domains[i + 1])
  /\ i' = i - 1
  /\ UNCHANGED <<stack, domainName, alternativeDomainNames, domains, wpc,
                 result, certificate, distribution>>
  /\ UNCHANGED handlerVars

\* loop body: if (domains.includes(domainWithWww)) continue
SkipPresentWww ==
  /\ wpc = "loop"
  /\ i >= 0
  /\ ~isWwwDomain(domains[i + 1])
  /\ wwwPresent(domains, domains[i + 1])
  /\ i' = i - 1
  /\ UNCHANGED <<stack, domainName, alternativeDomainNames, domains, wpc,
                 result, certificate, distribution>>
  /\ UNCHANGED handlerVars

\* loop body: domains.push(domainWithWww)
PushWww ==
  /\ wpc = "loop"
  /\ i >= 0
  /\ ~isWwwDomain(domains[i + 1])
  /\ ~wwwPresent(domains, domains[i + 1])
  /\ domains' = Append(domains, "www." \o domains[i + 1])
  /\ i' = i - 1
  /\ UNCHANGED <<stack, domainName, alternativeDomainNames, wpc, result,
                 certificate, distribution>>
  /\ UNCHANGED handlerVars

\* ReturnAlternatives returning domains without the slice
ReturnAllDomains ==
  /\ wpc = "loop"
  /\ i < 0
  /\ result' = domains
  /\ wpc' = "returned"
  /\ UNCHANGED <<stack, domainName, alternativeDomainNames, domains, i,
                 certificate, distribution>>
  /\ UNCHANGED handlerVars

\* loop exit: return domains.slice(1)
ReturnAlternatives ==
  /\ wpc = "loop"
  /\ i < 0
  /\ result' = slice1(domains)
  /\ wpc' = "returned"
  /\ UNCHANGED <<stack, domainName, alternativeDomainNames, domains, i,
                 certificate, distribution>>
  /\ UNCHANGED handlerVars

\* ConstructWebsite securing only the alternative names as given
ConstructWebsiteGivenNames ==
  /\ wpc = "returned"
  /\ stack = "part_000"
  /\ certificate' = [domainName |-> domainName,
                     subjectAlternativeNames |-> orEmpty(alternativeDomainNames)]
  /\ distribution' = [domainNames |-> <<domainName>> \o result]
  /\ wpc' = "constructed"
  /\ UNCHANGED <<stack, domainName, alternativeDomainNames, domains, i, result>>
  /\ UNCHANGED handlerVars

\* new cm.Certificate, new cf.Distribution of the stack with withWwwDomains
ConstructWebsite ==
  /\ wpc = "returned"
  /\ stack = "part_000"
  /\ certificate' = [domainName |-> domainName,
                     subjectAlternativeNames |-> result]
  /\ distribution' = [domainNames |-> <<domainName>> \o result]
  /\ wpc' = "constructed"
  /\ UNCHANGED <<stack, domainName, alternativeDomainNames, domains, i, result>>
  /\ UNCHANGED handlerVars

\* new cm.Certificate, new cf.Distribution of lib/hosting-stack.ts
LibConstructWebsite ==
  /\ wpc = "start"
  /\ stack = "lib"
  /\ certificate' = [domainName |-> domainName,
                     subjectAlternativeNames |->
                       <<"www." \o domainName>> \o orEmpty(alternativeDomainNames)]
  /\ distribution' = [domainNames |-> <<domainName, "www." \o domainName>>]
  /\ wpc' = "constructed"
  /\ UNCHANGED <<stack, domainName, alternativeDomainNames, domains, i, result>>
  /\ UNCHANGED handlerVars

StackInit ==
  /\ stack \in {"part_000", "lib"}
  /\ domainName \in DomainNames
  /\ alternativeDomainNames \in OptionalNames
  /\ domains = <<>>
  /\ i = 0
  /\ wpc = "start"
  /\ result = <<>>
  /\ certificate = NoCertificate
  /\ distribution = NoDistribution
  /\ uri = ""
  /\ fromUri = ""
  /\ hpc = "idle"
  /\ uriWrites = 0
  /\ logs = <<>>
  /\ callbacks = <<>>

StackNext ==
  \/ EnterWithWwwDomains
  \/ SkipWwwDomain
  \/ SkipPresentWww
  \/ PushWww
  \/ ReturnAlternatives
  \/ ConstructWebsite
  \/ LibConstructWebsite

StackSpec == StackInit /\ [][StackNext]_vars

---------------------------------------------------------------------------
(* Vocabulary of the properties of the viewer-request function *)

Chars(p) == {SubSeq(p, k, k) : k \in 1..Len(p)}

LastChar(p) == SubSeq(p, Len(p), Len(p))

\* position of the last "/" of p, 0 when there is none
LastSlash(p) ==
  LET slashes == {k \in 1..Len(p) : SubSeq(p, k, k) = "/"}
  IN  IF slashes = {} THEN 0 ELSE CHOOSE k \in slashes : \A m \in slashes : m <= k

LastSegment(p) == SubSeq(p, LastSlash(p) + 1, Len(p))

---------------------------------------------------------------------------
(* Properties of the viewer-request function *)

\* C1: for every request uri p the forwarded uri is p + "index.html" when p
\* ends with "/"; otherwise p + "/index.html" when p holds no "." anywhere;
\* otherwise p unchanged. The cases apply in that order and cover every p.
C1_ThreeCases ==
  hpc = "returned" =>
    LET p == fromUri
        r == callbacks[1].uri
        slash == p # "" /\ LastChar(p) = "/"
        dot == "." \in Chars(p)
    IN  /\ slash => r = p \o "index.html"
        /\ (~slash /\ ~dot) => r = p \o "/index.html"
        /\ (~slash /\ dot) => r = p
        /\ slash \/ (~slash /\ ~dot) \/ (~slash /\ dot)

\* a uri that ends with "/" and holds a ".": the first case wins
C1_Witness ==
  /\ hpc = "returned"
  /\ fromUri = "/a.a/"
  /\ callbacks = <<[error |-> "null", uri |-> "/a.a/index.html"]>>

\* C7: every request whose final path segment holds no "." is rewritten to a
\* uri ending in "/index.html"; for every path x, both x and x + "/" resolve
\* to x + "/index.html".
C7_ExtensionlessToIndex ==
  hpc = "returned" =>
    /\ ("." \notin Chars(LastSegment(fromUri)))
         => endsWith(callbacks[1].uri, "/index.html")
    /\ ("." \notin Chars(LastSegment(fromUri)) /\ ~endsWith(fromUri, "/"))
         => /\ callbacks[1].uri = fromUri \o "/index.html"
            /\ Rewrite(fromUri \o "/") = fromUri \o "/index.html"

\* C8: the handler runs to its end for every string uri, assigns request.uri
\* at most once, invokes the callback exactly once with a null error and the
\* request, and leaves request.uri alone once the callback has been invoked.
C8_ForwardedOnce ==
  /\ [](uriWrites <= 1 /\ Len(callbacks) <= 1)
  /\ [](hpc = "returned" => callbacks = <<[error |-> "null", uri |-> uri]>>)
  /\ [][callbacks # <<>> => (uri' = uri /\ callbacks' = callbacks)]_vars
  /\ <>(hpc = "returned")

C8_Witness ==
  /\ hpc = "returned"
  /\ uriWrites = 1
  /\ uri # fromUri
  /\ Len(callbacks) = 1

\* C10: the rewrite is idempotent: rewriting a forwarded uri again leaves it
\* unchanged, so a second pass takes the unchanged branch and logs nothing.
C10_Idempotent ==
  hpc = "returned" =>
    LET again == Rewrite(callbacks[1].uri)
    IN  /\ again = callbacks[1].uri
        /\ ~endsWith(callbacks[1].uri, "/")
        /\ includes(callbacks[1].uri, ".")

C10_Witness ==
  /\ hpc = "returned"
  /\ fromUri = "/a"
  /\ callbacks[1].uri = "/a/index.html"
  /\ Len(logs) = 1

---------------------------------------------------------------------------
(* Vocabulary of the properties of withWwwDomains and the constructor *)

\* [primary] ++ explicit alternates, the domains withWwwDomains starts from
Input == <<domainName>> \o orEmpty(alternativeDomainNames)

\* withWwwDomains of the stack that has it has returned
Returned == stack = "part_000" /\ wpc \in {"returned", "constructed"}

Count(seq, x) == Cardinality({k \in 1..Len(seq) : seq[k] = x})

\* the entries of the returned sequence that follow the explicit alternates
Derived ==
  SubSeq(result, Len(orEmpty(alternativeDomainNames)) + 1, Len(result))

NoDuplicates(seq) ==
  \A j, k \in 1..Len(seq) : j # k => seq[j] # seq[k]

---------------------------------------------------------------------------
(* Properties of withWwwDomains and the constructor *)

\* C2: with no explicit alternates (undefined or empty) withWwwDomains
\* returns exactly ["www." + d] for a primary domain d that does not start
\* with "www.", and the empty sequence for a d that does.
C2_NoAlternates ==
  (Returned /\ orEmpty(alternativeDomainNames) = <<>>) =>
    result = IF startsWith(domainName, "www.")
               THEN <<>>
               ELSE <<"www." \o domainName>>

\* a primary domain that starts with "www" but not with "www."
C2_Witness ==
  /\ Returned
  /\ ~alternativeDomainNames.defined
  /\ domainName = "wwwexample.org"
  /\ result = <<"www.wwwexample.org">>

\* C3: the sequence returned by withWwwDomains never contains the primary
\* domain, also when the explicit alternates list the primary domain.
C3_PrimaryExcluded ==
  Returned => ~arrayIncludes(result, domainName)

\* C4 as stated: withWwwDomains("example.org", ["example.com"]) returns
\* ["example.com", "www.example.org", "www.example.com"].
C4_ExampleAsStated ==
  (/\ Returned
   /\ domainName = "example.org"
   /\ alternativeDomainNames = [defined |-> TRUE, names |-> <<"example.com">>])
    => result = <<"example.com", "www.example.org", "www.example.com">>

\* C4 amended: withWwwDomains("example.org", ["example.com"]) returns
\* ["example.com", "www.example.com", "www.example.org"]: the explicit
\* alternate, then the www variant of the alternate, then that of the primary.
C4_Example ==
  (/\ Returned
   /\ domainName = "example.org"
   /\ alternativeDomainNames = [defined |-> TRUE, names |-> <<"example.com">>])
    => result = <<"example.com", "www.example.com", "www.example.org">>

C4_Witness ==
  /\ Returned
  /\ domainName = "example.org"
  /\ alternativeDomainNames = [defined |-> TRUE, names |-> <<"example.com">>]
  /\ Len(result) = 3

\* C5 as stated: for every x of [primary] ++ explicitAlternates that does not
\* start with "www.", "www." + x is in the returned sequence, derived exactly
\* once if it was not in the input and never if it was; and nothing is
\* derived from a domain that starts with "www.".
C5_WwwDerivedAsStated ==
  Returned =>
    /\ \A k \in 1..Len(Input) :
         ~startsWith(Input[k], "www.") =>
           /\ arrayIncludes(result, "www." \o Input[k])
           /\ Count(Derived, "www." \o Input[k])
                = IF arrayIncludes(Input, "www." \o Input[k]) THEN 0 ELSE 1
    /\ \A d \in 1..Len(Derived) :
         \E k \in 1..Len(Input) :
           ~startsWith(Input[k], "www.") /\ Derived[d] = "www." \o Input[k]

\* C5 amended: as stated, except that "www." + x is in the returned sequence
\* or is the primary domain itself.
C5_WwwDerived ==
  Returned =>
    /\ \A k \in 1..Len(Input) :
         ~startsWith(Input[k], "www.") =>
           /\ \/ arrayIncludes(result, "www." \o Input[k])
              \/ "www." \o Input[k] = domainName
           /\ Count(Derived, "www." \o Input[k])
                = IF arrayIncludes(Input, "www." \o Input[k]) THEN 0 ELSE 1
    /\ \A d \in 1..Len(Derived) :
         \E k \in 1..Len(Input) :
           ~startsWith(Input[k], "www.") /\ Derived[d] = "www." \o Input[k]

\* the primary is the www variant of an explicit alternate, and another
\* alternate gains its derived www variant
C5_Witness ==
  /\ Returned
  /\ domainName = "www.example.org"
  /\ alternativeDomainNames =
       [defined |-> TRUE, names |-> <<"example.org", "example.com">>]
  /\ result = <<"example.org", "example.com", "www.example.com">>

\* C6: the domainNames passed to the distribution, [primary] ++
\* withWwwDomains(primary, explicitAlternates), hold no duplicate entry.
C6_NoDuplicateDomainNames ==
  (stack = "part_000" /\ wpc = "constructed") =>
    NoDuplicates(distribution.domainNames)

\* C9: in both stacks every hostname of the distribution's domainNames is
\* the certificate's domainName or one of its subjectAlternativeNames.
C9_DomainNamesCertified ==
  wpc = "constructed" =>
    \A k \in 1..Len(distribution.domainNames) :
      \/ distribution.domainNames[k] = certificate.domainName
      \/ arrayIncludes(certificate.subjectAlternativeNames,
                       distribution.domainNames[k])

\* a website with an explicit alternate and derived www variants
C9_Witness ==
  /\ wpc = "constructed"
  /\ stack = "part_000"
  /\ alternativeDomainNames = [defined |-> TRUE, names |-> <<"example.com">>]
  /\ Len(distribution.domainNames) = 4
  /\ certificate.subjectAlternativeNames = result

=============================================================================
